---- MODULE Spec2Model ----
(***************************************************************************)
(* Kortex agent orchestration core: the ChatController (chat_controller.py)*)
(* driving AgentWorker / ToolExecutionWorker threads that run the          *)
(* AgentService (agent/service.py) over one conversation's AgentState,     *)
(* with the tool registry (tools/registry.py) as the only place a tool     *)
(* runs.                                                                   *)
(*                                                                         *)
(* One conversation is modelled, in agent mode with a chat model selected. *)
(* Worker threads advance in steps that are cut at the blocking calls of   *)
(* the service (a backend invoke, a tool execution); the signals they emit *)
(* are queued to the main thread, which handles them one at a time.        *)
(*                                                                         *)
(* Four specifications are given.   Spec: the caller may call sendMessage  *)
(* and respondToToolCalls at any moment, also while workers are running;   *)
(* the properties about concurrent use of the controller are checked here. *)
(* SpecSeq: the caller makes its next call only when no worker is running  *)
(* and no signal is queued (one unit of work at a time), in any order and  *)
(* with any arguments; the properties of the turn flow are checked here.   *)
(* SpecOpen: the sequential caller again, with a tool model that names a   *)
(* tool the registry does not have and sends calls without ids.            *)
(* SpecUnit: single functions (the router decision, the permission         *)
(* property of a tool, the registry's register, get, get_all and           *)
(* execute_tool) called directly on inputs drawn at the start.             *)
(*                                                                         *)
(* When the controller rebinds _agent_worker or _tool_worker while the     *)
(* thread it held is still running, the QThread object may be destroyed    *)
(* while running.  The process then aborts (the behaviour stops there,     *)
(* which stuttering covers) or the thread runs on (the steps below).       *)
(***************************************************************************)
EXTENDS Integers, Sequences, FiniteSets, TLC

\* ------------------------------------------------------------------ bounds
MaxCallerOps == 3
MaxToolRounds == 2
MaxBatch == 2
MaxWorkers == 2
MaxRegisters == 2
MaxProbes == 2
MaxModels == 3
MaxTurnRounds == 3

\* ------------------------------------------------------------ tool catalog
\* Permission enum members and their values.
Permissions == {"FS_READ", "FS_WRITE", "INTERNET", "RUN_CMD"}

PermissionValue(p) ==
    CASE p = "FS_READ" -> "fs_read"
      [] p = "FS_WRITE" -> "fs_write"
      [] p = "INTERNET" -> "internet"
      [] p = "RUN_CMD" -> "run_cmd"

\* Permission(value): the member with that value.
PermissionOf(v) == CHOOSE p \in Permissions : PermissionValue(p) = v

PermRequiresExplicit(p) == p \in {"FS_WRITE", "INTERNET", "RUN_CMD"}

\* The registry after _register_default_tools, in registration order.
RegisteredTools == <<"read_dir", "read_file", "write_file", "run_cmd">>

ToolPermissions(name) ==
    CASE name = "read_dir" -> <<"FS_READ">>
      [] name = "read_file" -> <<"FS_READ">>
      [] name = "write_file" -> <<"FS_WRITE">>
      [] name = "run_cmd" -> <<"RUN_CMD">>

Range(s) == {s[k] : k \in DOMAIN s}

\* tool_registry.get(name) finds a tool.
RegistryHas(name) == name \in Range(RegisteredTools)

\* A tool object: its name, its permissions, and obj, which tells apart two
\* tool objects of the same name.
Tool(name, permissions, obj) ==
    [name |-> name, permissions |-> permissions, obj |-> obj]

\* The None that dict.get returns for a missing key.
None == Tool("None", <<>>, 0)

\* self._tools = {}: a dict is its keys in insertion order and their values.
EmptyRegistry == [keys |-> <<>>, val |-> <<>>]

\* A faulty variant: the first tool registered under a name is kept.
RegisterKeepFirst(reg, tool) ==
    IF tool.name \in Range(reg.keys) THEN reg
    ELSE [keys |-> Append(reg.keys, tool.name),
          val |-> (tool.name :> tool) @@ reg.val]

\* ToolRegistry.register: self._tools[tool.name] = tool
Register(reg, tool) ==
    [keys |-> IF tool.name \in Range(reg.keys) THEN reg.keys
              ELSE Append(reg.keys, tool.name),
     val |-> (tool.name :> tool) @@ reg.val]

\* ToolRegistry.get: self._tools.get(name)
Get(reg, name) == IF name \in DOMAIN reg.val THEN reg.val[name] ELSE None

\* A faulty variant: the values in reverse order.
GetAllReversed(reg) ==
    [k \in DOMAIN reg.keys |-> reg.val[reg.keys[Len(reg.keys) + 1 - k]]]

\* ToolRegistry.get_all: list(self._tools.values())
GetAll(reg) == [k \in DOMAIN reg.keys |-> reg.val[reg.keys[k]]]

\* The tools _register_default_tools registers, in order.
DefaultTools ==
    [k \in DOMAIN RegisteredTools |->
        Tool(RegisteredTools[k], ToolPermissions(RegisteredTools[k]), k)]

\* ToolRegistry.__init__
RECURSIVE RegisterAll(_, _)
RegisterAll(reg, tools) ==
    IF tools = <<>> THEN reg
    ELSE RegisterAll(Register(reg, Head(tools)), Tail(tools))

DefaultRegistry == RegisterAll(EmptyRegistry, DefaultTools)

\* A faulty variant: all() in place of any().
RequiresExplicitPermissionAll(permissions) ==
    \A k \in DOMAIN permissions : PermRequiresExplicit(permissions[k])

\* BaseTool.requires_explicit_permission, for a tool with these permissions
RequiresExplicitPermission(permissions) ==
    \E k \in DOMAIN permissions : PermRequiresExplicit(permissions[k])

\* requires_explicit_permission of the registered tool of that name
ToolRequiresPermission(name) == RequiresExplicitPermission(ToolPermissions(name))

\* BaseTool.create_tool_call.  uid is a history field that names the
\* invocation independently of its call id; the code has no such field.
CreateToolCall(name, arguments, call_id, uid) ==
    [tool_name |-> name,
     arguments |-> arguments,
     permissions |-> ToolPermissions(name),
     requires_permission |-> ToolRequiresPermission(name),
     call_id |-> call_id,
     uid |-> uid]

\* ToolCall.to_dict
ToDict(tc) ==
    [tool_name |-> tc.tool_name,
     arguments |-> tc.arguments,
     permissions |-> [k \in DOMAIN tc.permissions |-> PermissionValue(tc.permissions[k])],
     requires_permission |-> tc.requires_permission,
     call_id |-> tc.call_id,
     uid |-> tc.uid]

\* The ToolCall rebuilt from a stored dict in ChatController._execute_tool_calls.
FromDict(d) ==
    [tool_name |-> d.tool_name,
     arguments |-> d.arguments,
     permissions |-> [k \in DOMAIN d.permissions |-> PermissionOf(d.permissions[k])],
     requires_permission |-> d.requires_permission,
     call_id |-> d.call_id,
     uid |-> d.uid]

\* ToolResult values.
DeniedError == "User denied permission for this tool call."
DeniedResult == [success |-> FALSE, output |-> "", error |-> DeniedError]

ToolResult(success, output, error) ==
    [success |-> success, output |-> output, error |-> error]

\* The arguments of a call: matching the signature of execute ("ok" succeeds,
\* "fail" meets an error inside the tool), or not matching it ("bad").
Arguments == {"ok", "fail", "bad"}

\* tool.execute(**arguments) of the four tools: binding mismatched arguments
\* raises TypeError before the body runs; the body catches every Exception
\* and returns a Result.
ToolExecute(name, arguments) ==
    CASE arguments = "bad" ->
            [raised |-> "TypeError", ran |-> FALSE, result |-> ToolResult(FALSE, "", "")]
      [] arguments = "fail" ->
            [raised |-> "None", ran |-> TRUE, result |-> ToolResult(FALSE, "", "tool error")]
      [] OTHER ->
            [raised |-> "None", ran |-> TRUE, result |-> ToolResult(TRUE, "out", "None")]

\* What a call of execute_tool comes to: a returned Result or a propagated
\* exception, and whether a tool body ran.
Returned(result, ran) == [returned |-> TRUE, result |-> result, ran |-> ran]
Propagated(exc, ran) ==
    [returned |-> FALSE, result |-> ToolResult(FALSE, "", exc), ran |-> ran]

\* A faulty variant: no except clause around tool.execute.
ExecuteToolCallUnguarded(name, arguments) ==
    IF ~RegistryHas(name)
    THEN Returned(ToolResult(FALSE, "", "Unknown tool"), FALSE)
    ELSE LET x == ToolExecute(name, arguments)
         IN IF x.raised = "None" THEN Returned(x.result, x.ran)
            ELSE Propagated(x.raised, x.ran)

\* ToolRegistry.execute_tool: an unknown name and a TypeError from mismatched
\* arguments become failure Results; otherwise the tool's own Result.
ExecuteToolCall(name, arguments) ==
    IF ~RegistryHas(name)
    THEN Returned(ToolResult(FALSE, "", "Unknown tool"), FALSE)
    ELSE LET x == ToolExecute(name, arguments)
         IN IF x.raised = "TypeError"
            THEN Returned(ToolResult(FALSE, "", "Invalid arguments for tool"), x.ran)
            ELSE IF x.raised = "None" THEN Returned(x.result, x.ran)
            ELSE Propagated(x.raised, x.ran)

\* The Result execute_tool hands to execute_tool_calls.
ExecuteTool(name, arguments) == ExecuteToolCall(name, arguments).result

\* ---------------------------------------------------------- backend inputs
\* Call identifiers: backend-provided or minted by uuid4.
BackendId(k) == <<"backend", k>>
Uuid4(n) == <<"uuid", n>>
NoId == <<"absent", 0>>

\* The structured calls a tool-model response is drawn from.
BackendCalls ==
    { [name |-> "read_dir", args |-> "ok", id |-> BackendId(1)],
      [name |-> "write_file", args |-> "ok", id |-> BackendId(1)],
      [name |-> "run_cmd", args |-> "bad", id |-> BackendId(2)] }

\* Structured calls of a backend that names a tool the registry does not
\* have, and that sends calls without an id.
OpenBackendCalls ==
    { [name |-> "bogus", args |-> "ok", id |-> BackendId(3)],
      [name |-> "read_file", args |-> "fail", id |-> NoId],
      [name |-> "write_file", args |-> "ok", id |-> NoId] }

\* Structured calls of a backend that gives every call the same id.
ReusedIdCalls ==
    { [name |-> "read_dir", args |-> "ok", id |-> BackendId(1)],
      [name |-> "write_file", args |-> "ok", id |-> BackendId(1)],
      [name |-> "run_cmd", args |-> "bad", id |-> BackendId(1)] }

SeqsUpTo(S, n) == UNION {[1..k -> S] : k \in 0..n}

Batches == SeqsUpTo(BackendCalls, MaxBatch)

OpenBatches == SeqsUpTo(OpenBackendCalls, MaxBatch)

ToolTexts == {"", "partial"}

\* The tool-model replies: free text and structured calls.  Text comes alone
\* or with one structured call.
Replies ==
    {r \in [text : ToolTexts, batch : Batches] :
        r.text = "" \/ Len(r.batch) <= 1}

\* Response texts of the router model, as sequences of characters.
RouterTexts ==
    { <<"T", "O", "O", "L", "S">>,
      <<" ", "t", "o", "o", "l", "s", "\n">>,
      <<"C", "H", "A", "T">>,
      <<"c", "h", "a", "t">>,
      <<"n", "o", " ", "t", "o", "o", "l", "s", " ", "n", "e", "e", "d", "e", "d">>,
      <<"T", "o", "o", "l", "s", ":", " ", "y", "e", "s">>,
      <<"T", "O", "O", "L">>,
      <<"T", "O", "O", "L", " ", "S">>,
      <<>> }

\* Replies without text that carry at most one call, all under one id.
ReusedIdReplies == [text : {""}, batch : SeqsUpTo(ReusedIdCalls, 1)]

OpenReplies ==
    {r \in [text : ToolTexts, batch : OpenBatches] :
        r.text = "" \/ Len(r.batch) <= 1}

\* What _route_message's backend call does: it returns a response text, or
\* it raises.
RouterReplies ==
    [raises : {FALSE}, content : RouterTexts]
        \cup {[raises |-> TRUE, content |-> <<>>]}

Whitespace(c) == c \in {" ", "\n"}

\* str.upper on one character
UpperChar(c) ==
    CASE c = "a" -> "A" [] c = "c" -> "C" [] c = "d" -> "D" [] c = "e" -> "E"
      [] c = "h" -> "H" [] c = "l" -> "L" [] c = "n" -> "N" [] c = "o" -> "O"
      [] c = "s" -> "S" [] c = "t" -> "T" [] c = "y" -> "Y"
      [] OTHER -> c

Upper(text) == [k \in DOMAIN text |-> UpperChar(text[k])]

RECURSIVE LStrip(_)
LStrip(text) ==
    IF text # <<>> /\ Whitespace(Head(text)) THEN LStrip(Tail(text)) ELSE text

RECURSIVE RStrip(_)
RStrip(text) ==
    IF text # <<>> /\ Whitespace(text[Len(text)])
    THEN RStrip(SubSeq(text, 1, Len(text) - 1)) ELSE text

\* response.content.strip().upper()
StripUpper(text) == Upper(RStrip(LStrip(text)))

\* sub in text
Contains(sub, text) ==
    \E i \in 0..(Len(text) - Len(sub)) : SubSeq(text, i + 1, i + Len(sub)) = sub

TOOLS == <<"T", "O", "O", "L", "S">>

\* A faulty variant: the decision must be the word itself.
ContainsToolsExactly(decision) == decision = TOOLS

\* "TOOLS" in decision
ContainsTools(decision) == Contains(TOOLS, decision)

\* AgentService._route_message; bound tells whether self._router_llm is set.
RouteMessage(bound, reply) ==
    IF ~bound THEN FALSE
    ELSE IF reply.raises THEN FALSE
    ELSE ContainsTools(StripUpper(reply.content))

\* A faulty variant: the loop ends at the first call naming an unknown tool.
RECURSIVE ExtractCallsUntilUnknown(_, _, _)
ExtractCallsUntilUnknown(batch, nuuid, nuid) ==
    IF batch = <<>>
    THEN [calls |-> <<>>, uuid |-> nuuid, uid |-> nuid]
    ELSE LET tc == Head(batch)
             minted == tc.id = NoId
             call_id == IF minted THEN Uuid4(nuuid) ELSE tc.id
             rest == ExtractCallsUntilUnknown(Tail(batch),
                                  IF minted THEN nuuid + 1 ELSE nuuid, nuid + 1)
         IN IF RegistryHas(tc.name)
            THEN [rest EXCEPT !.calls =
                    <<CreateToolCall(tc.name, tc.args, call_id, nuid)>> \o @]
            ELSE [calls |-> <<>>, uuid |-> nuuid, uid |-> nuid]

\* The loop over response.tool_calls in _process_tool_message and
\* _continue_with_tool_results: calls naming an unknown tool are skipped, the
\* call id is the backend's or a minted one.
RECURSIVE ExtractCalls(_, _, _)
ExtractCalls(batch, nuuid, nuid) ==
    IF batch = <<>>
    THEN [calls |-> <<>>, uuid |-> nuuid, uid |-> nuid]
    ELSE LET tc == Head(batch)
             minted == tc.id = NoId
             call_id == IF minted THEN Uuid4(nuuid) ELSE tc.id
             known == RegistryHas(tc.name)
             rest == ExtractCalls(Tail(batch),
                                  IF minted THEN nuuid + 1 ELSE nuuid,
                                  IF known THEN nuid + 1 ELSE nuid)
         IN IF known
            THEN [rest EXCEPT !.calls =
                    <<CreateToolCall(tc.name, tc.args, call_id, nuid)>> \o @]
            ELSE rest

\* A faulty variant: all(...) in place of any(...).
AllRequirePermission(calls) ==
    calls # <<>> /\ \A k \in DOMAIN calls : calls[k].requires_permission

\* any(tc.requires_permission for tc in calls)
AnyRequiresPermission(calls) ==
    \E k \in DOMAIN calls : calls[k].requires_permission

\* Faulty variants of the two filters below: one that keeps every call, and
\* two that keep none.
PermissionRequiredAll(calls) == calls
PermissionRequiredNone(calls) == SubSeq(calls, 1, 0)
AutoApproveNone(calls) == SubSeq(calls, 1, 0)

\* [tc for tc in calls if tc requires permission] / if not
PermissionRequired(calls) == SelectSeq(calls, LAMBDA tc : tc.requires_permission)
AutoApprove(calls) == SelectSeq(calls, LAMBDA tc : ~tc.requires_permission)

CallIds(calls) == {calls[k].call_id : k \in DOMAIN calls}

\* ------------------------------------------------------------- transcript
\* LangChain messages of AgentState.messages.
Msg(role, content, calls, call_id) ==
    [role |-> role, content |-> content, calls |-> calls, call_id |-> call_id]

SystemMessage == Msg("system", "TOOL_PROMPT", <<>>, NoId)
HumanMessage(content) == Msg("human", content, <<>>, NoId)
AIMessage(content, calls) == Msg("ai", content, calls, NoId)
ToolMessage(content, call_id) == Msg("tool", content, <<>>, call_id)

\* The history loop of _process_tool_message: user and assistant entries
\* become Human and AI messages.
RECURSIVE HistoryMessages(_)
HistoryMessages(history) ==
    IF history = <<>> THEN <<>>
    ELSE LET m == Head(history)
         IN (IF m.role = "user" THEN <<HumanMessage(m.content)>>
             ELSE IF m.role = "assistant" THEN <<AIMessage(m.content, <<>>)>>
             ELSE <<>>) \o HistoryMessages(Tail(history))

\* The AI message and the tool messages _continue_with_tool_results appends
\* for one batch of tool results.
ToolCallsForMessage(tool_results) ==
    [k \in DOMAIN tool_results |->
        [name |-> tool_results[k].tool_name,
         args |-> tool_results[k].arguments,
         id |-> tool_results[k].call_id]]

\* A faulty variant: every failure is shown to the model as the same text.
ErrorContentGeneric(error) == "Error: Invalid arguments for tool"

\* f"Error: {result['error']}"
ErrorContent(error) ==
    CASE error = DeniedError -> "Error: User denied permission for this tool call."
      [] error = "Unknown tool" -> "Error: Unknown tool"
      [] error = "tool error" -> "Error: tool error"
      [] OTHER -> "Error: Invalid arguments for tool"

ToolResultContent(result) ==
    IF result.success THEN result.output ELSE ErrorContent(result.error)

\* A faulty variant: the tool messages in reverse order.
ToolResultMessagesReversed(tool_results) ==
    [k \in DOMAIN tool_results |->
        ToolMessage(ToolResultContent(
                        tool_results[Len(tool_results) + 1 - k].result),
                    tool_results[Len(tool_results) + 1 - k].call_id)]

\* One ToolMessage per entry of tool_results, in order.
ToolResultMessages(tool_results) ==
    [k \in DOMAIN tool_results |->
        ToolMessage(ToolResultContent(tool_results[k].result),
                    tool_results[k].call_id)]

\* A faulty variant: the transcript restarts from the system prompt, so the
\* messages of earlier rounds are lost.
ContinueMessagesFresh(messages, current_response, tool_results) ==
    SubSeq(messages, 1, 1)
        \o <<AIMessage(current_response, ToolCallsForMessage(tool_results))>>
        \o ToolResultMessages(tool_results)

\* The messages list _continue_with_tool_results hands to the tool model:
\* a copy of state.messages, the AI message that requested the calls, and one
\* tool message per result.
ContinueMessages(messages, current_response, tool_results) ==
    messages
        \o <<AIMessage(current_response, ToolCallsForMessage(tool_results))>>
        \o ToolResultMessages(tool_results)

\* One entry of tool_results and of tool_execution_context.
ToolResultEntry(tc, result) ==
    [call_id |-> tc.call_id, tool_name |-> tc.tool_name,
     arguments |-> tc.arguments, result |-> result]

\* A faulty variant: the context keeps only whether the call succeeded.
ContextEntryOutcomeOnly(tc, result) ==
    [tool_name |-> tc.tool_name, arguments |-> tc.arguments,
     result |-> ToolResult(result.success, "", "")]

ContextEntry(tc, result) ==
    [tool_name |-> tc.tool_name, arguments |-> tc.arguments, result |-> result]

\* ------------------------------------------------------------------ state
VARIABLES
    is_loading,     \* ChatController._is_loading
    ctl_pending,    \* ChatController._pending_tool_calls[chat_id]
    db,             \* the transcript log (KortexDatabase messages of the chat)
    state,          \* the conversation's AgentState
    workers,        \* running AgentWorker / ToolExecutionWorker threads
    events,         \* signals queued to the main thread
    surfaced,       \* payload of the last toolCallsPending signal
    chat,           \* whether the chat was deleted, and whether
                    \* ChatController._agent_states holds an entry for it
    dispatched,     \* history: every invocation run by the registry or denied
    extracted,      \* history: the batches of invocations extracted so far
    replied,        \* history: the structured calls of each tool-model reply
    turn,           \* history: "idle", "inflight", "awaiting", "final"
    registry,       \* ToolRegistry._tools, in insertion order
    registered,     \* history: the tools passed to register, in call order
    mode,           \* ChatController._agent_mode, _agent_models_available,
                    \* _missing_agent_models and _models
    probe,          \* the direct call made on a function, and what it returned
    counters        \* next uuid, next uid, and the calls made so far; history:
                    \* dispatches and summarizer calls since the last submit,
                    \* the invocations shown to the caller, those held when
                    \* a new message was accepted, and whether the turn in
                    \* progress answers a response that found nothing pending

unit == <<registry, registered, probe, mode>>

vars == <<is_loading, ctl_pending, db, state, workers, events, surfaced, chat,
          dispatched, extracted, replied, turn, counters, unit>>

main == <<is_loading, ctl_pending, db, state, workers, events, surfaced, chat,
          dispatched, extracted, replied, turn, counters>>

\* ------------------------------------------------------- required models
\* A model name is the sequence of its parts around ":": "gemma3:270m" is
\* <<"gemma3", "270m">>, a name without a tag has one part.
ROUTER_MODEL == <<"gemma3", "270m">>
TOOL_MODEL == <<"functiongemma", "270m">>
REQUIRED_AGENT_MODELS == <<ROUTER_MODEL, TOOL_MODEL>>

\* The names Ollama may list.
ModelNames ==
    {ROUTER_MODEL, TOOL_MODEL, <<"gemma3", "1b">>, <<"functiongemma", "latest">>,
     <<"gemma3">>, <<"llama3", "8b">>}

\* available == required or
\* available.startswith(required.split(":")[0] + ":")
BaseMatches(available, required) ==
    \/ available = required
    \/ Len(available) >= 2 /\ available[1] = required[1]

\* A faulty variant: a name with the same base counts as present.
FoundByBase(required, ollama_models) ==
    \E k \in DOMAIN ollama_models : BaseMatches(ollama_models[k], required)

\* The inner loop of check_required_models: found is set only on equality.
Found(required, ollama_models) ==
    \E k \in DOMAIN ollama_models :
        /\ BaseMatches(ollama_models[k], required)
        /\ ollama_models[k] = required

MissingFrom(k, ollama_models) ==
    IF Found(REQUIRED_AGENT_MODELS[k], ollama_models) THEN <<>>
    ELSE <<REQUIRED_AGENT_MODELS[k]>>

\* check_required_models(ollama_models)
CheckRequiredModels(ollama_models) ==
    LET missing == MissingFrom(1, ollama_models) \o MissingFrom(2, ollama_models)
    IN [all_present |-> Len(missing) = 0, missing |-> missing]

\* -------------------------------------------------------------- run_cmd
\* timeout: int = 30
DefaultTimeout == 30

\* The processes of subprocess.run(command, shell=True, ...): the shell that
\* Popen starts, and the command. Whether the shell runs the command as a
\* child of its own or replaces itself by it depends on the shell and on the
\* form of the command line.
Spawned(forks) == IF forks THEN {"shell", "command"} ELSE {"command"}

\* The one process Popen holds, which Popen.kill() signals on a timeout.
PopenProcess(forks) == IF forks THEN "shell" ELSE "command"

\* subprocess.run(..., timeout=timeout): the command ends by itself after
\* runtime seconds with its exit code, or the timeout expires first, the
\* Popen process is killed and waited for, and TimeoutExpired is raised.
SubprocessRun(runtime, code, timeout, forks) ==
    IF runtime > timeout
    THEN [raised |-> "TimeoutExpired", returncode |-> 0,
          alive |-> Spawned(forks) \ {PopenProcess(forks)}]
    ELSE [raised |-> "None", returncode |-> code, alive |-> {}]

\* RunCommandTool.execute(command, timeout=timeout): the Result, and the
\* spawned processes still alive when it is returned.
RunCommandExecute(runtime, code, timeout, forks) ==
    LET run == SubprocessRun(runtime, code, timeout, forks)
    IN [result |->
            CASE run.raised = "TimeoutExpired" ->
                    ToolResult(FALSE, "", "Command timed out")
              [] run.returncode # 0 ->
                    ToolResult(FALSE, "out", "Command exited with code")
              [] OTHER -> ToolResult(TRUE, "out", "None"),
        alive |-> run.alive]

\* The direct calls made on single functions: the function and its inputs.
ToolNames == Range(RegisteredTools) \cup {"bogus"}

RouteInputs == [kind : {"route"}, bound : BOOLEAN, reply : RouterReplies]
PermissionInputs ==
    [kind : {"permission"}, permissions : SeqsUpTo(Permissions, MaxBatch)]
ExecuteInputs == [kind : {"execute"}, name : ToolNames, arguments : Arguments]
GetInputs == [kind : {"get"}, name : ToolNames \cup {"echo"}]
GetAllInputs == [kind : {"get_all"}]
RunCommandInputs ==
    [kind : {"run_cmd"}, runtime : {0, 5, 40}, code : {0, 1},
     timeout : {1, DefaultTimeout}, forks : BOOLEAN]
ModelsInputs == [kind : {"models"}, models : SeqsUpTo(ModelNames, MaxModels)]

Inputs ==
    RouteInputs \cup PermissionInputs \cup ExecuteInputs \cup GetInputs
        \cup GetAllInputs \cup ModelsInputs \cup RunCommandInputs

\* The value of probe.out before the first call.
NoOut(input) ==
    CASE input.kind \in {"route", "permission"} -> FALSE
      [] input.kind = "execute" -> Propagated("", FALSE)
      [] input.kind = "get" -> None
      [] input.kind = "get_all" -> <<>>
      [] input.kind = "models" -> [all_present |-> FALSE, missing |-> <<>>]
      [] input.kind = "run_cmd" -> [result |-> ToolResult(FALSE, "", ""), alive |-> {}]

NoProbe == [input |-> [kind |-> "none"], n |-> 0, at |-> 0, out |-> FALSE]

\* AgentState()
NewAgentState ==
    [messages |-> <<>>,
     pending_tool_calls |-> <<>>,
     completed_tool_calls |-> <<>>,
     denied_tool_calls |-> {},
     is_waiting_for_permission |-> FALSE,
     current_response |-> "",
     tool_execution_context |-> <<>>,
     in_tool_chain |-> FALSE]

\* A chat the controller holds no AgentState for.
NoChatState == [deleted |-> FALSE, has_state |-> FALSE]

\* ChatController._get_or_create_agent_state: the state held for the chat,
\* or a new one.
GetOrCreateAgentState(c, st) == IF c.has_state THEN st ELSE NewAgentState

\* ChatController.__init__ before its call of _refresh_models.
NoModels ==
    [agent_mode |-> FALSE, agent_models_available |-> FALSE,
     missing_agent_models |-> <<>>, models |-> <<>>]

\* The controller of the agent-mode runs: both required models were found
\* and agent mode was switched on.
AgentModeOn ==
    [agent_mode |-> TRUE, agent_models_available |-> TRUE,
     missing_agent_models |-> <<>>, models |-> REQUIRED_AGENT_MODELS]

\* ChatController._refresh_models: is_available is what the backend answers,
\* names is the list of models it returns.
Refreshed(m, is_available, names) ==
    IF is_available
    THEN LET checked == CheckRequiredModels(names)
         IN [agent_mode |-> IF ~checked.all_present THEN FALSE ELSE m.agent_mode,
             agent_models_available |-> checked.all_present,
             missing_agent_models |-> checked.missing,
             models |-> names]
    ELSE [m EXCEPT !.models = <<>>,
                   !.agent_models_available = FALSE,
                   !.missing_agent_models = REQUIRED_AGENT_MODELS]

NoWorker ==
    [kind |-> "none", pc |-> "none", approved |-> {}, denied |-> {},
     from_caller |-> FALSE, iter |-> <<>>, i |-> 0, tool_results |-> <<>>,
     messages |-> <<>>, history |-> <<>>, failed |-> FALSE]

Init ==
    /\ is_loading = FALSE
    /\ ctl_pending = <<>>
    /\ db = <<>>
    /\ state = NewAgentState
    /\ workers = [w \in 1..MaxWorkers |-> NoWorker]
    /\ events = <<>>
    /\ surfaced = <<>>
    /\ chat = NoChatState
    /\ dispatched = <<>>
    /\ extracted = <<>>
    /\ replied = <<>>
    /\ registry = DefaultRegistry
    /\ registered = DefaultTools
    /\ mode = AgentModeOn
    /\ probe = NoProbe
    /\ turn = "idle"
    /\ counters = [uuid |-> 1, uid |-> 1, ops |-> 0, rounds |-> 0, chain |-> 0,
                   disp |-> 0, sums |-> 0, fails |-> 0, sumfails |-> 0,
                   shown |-> {},
                   abandoned |-> {}, empty |-> FALSE]

\* ------------------------------------------------------------ thread pool
Running(w) == workers[w].kind # "none"
FreeSlots == {w \in 1..MaxWorkers : ~Running(w)}
FreeSlot == CHOOSE w \in FreeSlots : \A v \in FreeSlots : w <= v

\* AgentWorker(...).start()
NewAgentWorker(history) ==
    [NoWorker EXCEPT !.kind = "agent", !.pc = "route", !.history = history]

\* ToolExecutionWorker(...).start()
NewToolWorker(approved, denied, from_caller) ==
    [NoWorker EXCEPT !.kind = "tool", !.pc = "exec", !.approved = approved,
                     !.denied = denied, !.from_caller = from_caller]

\* A signal emitted by a worker thread, queued to the main thread.
Signal(sig, response, tool_calls) ==
    [sig |-> sig, response |-> response, tool_calls |-> tool_calls]

DictsOf(calls) == [k \in DOMAIN calls |-> ToDict(calls[k])]

DbMessage(role, content) == [role |-> role, content |-> content]

\* A faulty variant: a failure is answered with an empty text.
ErrorOutcomeSilent(sig) == Signal(sig, "", <<>>)

\* return f"Error: {str(e)}", [], state
ErrorOutcome(sig) == Signal(sig, "Error", <<>>)

\* ------------------------------------------------- controller, main thread
\* ChatController.sendMessage followed by _send_agent_message.
SendMessage(content, available) ==
    /\ counters.ops < MaxCallerOps
    /\ IF content = "" \/ is_loading
       THEN UNCHANGED vars
       ELSE IF ~available
       THEN /\ db' = db \o <<DbMessage("user", content),
                              DbMessage("assistant", "Error: Ollama is not running.")>>
            /\ counters' = [counters EXCEPT !.ops = @ + 1]
            /\ UNCHANGED <<is_loading, ctl_pending, state, workers, events,
                           surfaced, chat, unit, dispatched, extracted, replied,
                           turn>>
       ELSE /\ FreeSlots # {}
            /\ db' = Append(db, DbMessage("user", content))
            /\ is_loading' = TRUE
            /\ workers' = [workers EXCEPT ![FreeSlot] = NewAgentWorker(db)]
            /\ turn' = "inflight"
            /\ counters' = [counters EXCEPT
                    !.ops = @ + 1, !.disp = 0, !.sums = 0, !.fails = 0,
                    !.sumfails = 0,
                    !.abandoned = @ \cup {ctl_pending[k].uid : k \in DOMAIN ctl_pending},
                    !.empty = FALSE]
            /\ state' = GetOrCreateAgentState(chat, state)
            /\ chat' = [chat EXCEPT !.has_state = TRUE]
            /\ UNCHANGED <<ctl_pending, events, surfaced, unit, dispatched,
                           extracted, replied>>

\* ChatController._execute_tool_calls: the AgentState's pending list is rebuilt
\* from the stored dicts, the store is cleared and a ToolExecutionWorker starts.
ExecuteToolCallsCtl(pending, approved, denied, from_caller) ==
    /\ FreeSlots # {}
    /\ state' = [GetOrCreateAgentState(chat, state) EXCEPT
                    !.pending_tool_calls =
                        [k \in DOMAIN pending |-> FromDict(pending[k])]]
    /\ chat' = [chat EXCEPT !.has_state = TRUE]
    /\ ctl_pending' = <<>>
    /\ workers' = [workers EXCEPT ![FreeSlot] =
                    NewToolWorker(approved, denied, from_caller)]

\* ChatController.deleteChat: the chat's messages, its AgentState entry and
\* its pending calls are removed; workers and the loading flag are left alone.
DeleteChat ==
    /\ ~chat.deleted
    /\ db' = <<>>
    /\ chat' = [deleted |-> TRUE, has_state |-> FALSE]
    /\ ctl_pending' = <<>>
    /\ UNCHANGED <<is_loading, state, workers, events, surfaced, unit,
                   dispatched, extracted, replied, turn, counters>>

\* ChatController.respondToToolCalls
RespondToToolCalls(approved, denied) ==
    /\ counters.ops < MaxCallerOps
    /\ is_loading' = TRUE
    /\ ExecuteToolCallsCtl(ctl_pending, approved, denied, TRUE)
    /\ turn' = "inflight"
    /\ counters' = [counters EXCEPT
            !.ops = @ + 1, !.fails = 0, !.sumfails = 0,
            !.empty = ctl_pending = <<>> /\ state.pending_tool_calls = <<>>]
    /\ UNCHANGED <<db, events, surfaced, unit, dispatched, extracted, replied>>

\* What the caller is shown of an invocation in the toolCallsPending payload.
Shown(d) ==
    [call_id |-> d.call_id, tool_name |-> d.tool_name, arguments |-> d.arguments]

\* ChatController._on_agent_response_ready and _on_tool_execution_complete
\* (the two handlers have the same body).
OnResponse(response, tool_calls) ==
    LET permission_required == PermissionRequired(tool_calls)
        auto_approve == AutoApprove(tool_calls)
    IN IF permission_required # <<>>
       THEN /\ ctl_pending' = tool_calls
            /\ db' = IF response # ""
                     THEN Append(db, DbMessage("assistant", response)) ELSE db
            /\ surfaced' = permission_required
            /\ counters' = [counters EXCEPT
                    !.shown = @ \cup {Shown(permission_required[k]) :
                                          k \in DOMAIN permission_required},
                    !.empty = FALSE]
            /\ is_loading' = FALSE
            /\ turn' = "awaiting"
            /\ UNCHANGED <<state, workers, dispatched, extracted, replied,
                           chat, unit>>
       ELSE IF auto_approve # <<>>
       THEN /\ ExecuteToolCallsCtl(tool_calls, CallIds(auto_approve), {}, FALSE)
            /\ counters' = [counters EXCEPT !.empty = FALSE]
            /\ UNCHANGED <<is_loading, db, surfaced, unit, dispatched,
                           extracted, replied, turn>>
       ELSE \* _finalize_response
            /\ db' = IF response # ""
                     THEN Append(db, DbMessage("assistant", response)) ELSE db
            /\ is_loading' = FALSE
            /\ turn' = "final"
            /\ counters' = [counters EXCEPT !.empty = FALSE]
            /\ UNCHANGED <<ctl_pending, state, workers, surfaced, chat, unit,
                           dispatched, extracted, replied>>

OnAgentResponseReady ==
    /\ events # <<>>
    /\ Head(events).sig = "response_ready"
    /\ events' = Tail(events)
    /\ OnResponse(Head(events).response, Head(events).tool_calls)

OnToolExecutionComplete ==
    /\ events # <<>>
    /\ Head(events).sig = "execution_complete"
    /\ events' = Tail(events)
    /\ OnResponse(Head(events).response, Head(events).tool_calls)

\* --------------------------------------------- AgentService, worker threads
\* The tool-model replies offered to an invoke: once `rounds` replies
\* carried structured calls, only replies without calls are offered.
Offered(replies, rounds) ==
    IF counters.rounds < rounds THEN replies
    ELSE {r \in replies : r.batch = <<>>}

CountRound(batch) == IF batch # <<>> THEN counters.rounds + 1 ELSE counters.rounds

\* AgentWorker.run -> process_message: the router call, and for TOOLS the
\* start of _process_tool_message up to the tool-model invoke.
ProcessMessageRoute(w, reply) ==
    /\ workers[w].kind = "agent" /\ workers[w].pc = "route"
    /\ IF RouteMessage(TRUE, reply)
       THEN /\ state' = [state EXCEPT
                    !.messages = <<SystemMessage>>
                        \o HistoryMessages(workers[w].history)
                        \o <<HumanMessage("msg")>>,
                    !.in_tool_chain = TRUE]
            /\ workers' = [workers EXCEPT ![w].pc = "extract"]
            /\ counters' = [counters EXCEPT !.chain = @ + 1]
       ELSE /\ workers' = [workers EXCEPT ![w].pc = "chat"]
            /\ UNCHANGED <<state, counters>>
    /\ UNCHANGED <<is_loading, ctl_pending, db, events, surfaced, chat, unit,
                   dispatched, extracted, replied, turn>>

\* A faulty variant: the chat answer starts from a fresh AgentState.
ChatStateFresh(st, response) ==
    [NewAgentState EXCEPT !.current_response = response]

\* process_message, router said CHAT: state.current_response = response
ChatState(st, response) == [st EXCEPT !.current_response = response]

\* process_message, router said CHAT: _chat_response and the return.
ChatResponse(w, reply) ==
    /\ workers[w].kind = "agent" /\ workers[w].pc = "chat"
    /\ state' = ChatState(state, reply)
    /\ events' = Append(events, Signal("response_ready", reply, <<>>))
    /\ workers' = [workers EXCEPT ![w] = NoWorker]
    /\ UNCHANGED <<is_loading, ctl_pending, db, surfaced, chat, unit, dispatched,
                   extracted, replied, turn, counters>>

\* _process_tool_message from the tool-model reply on.
ProcessToolMessage(w, raised, text, batch) ==
    /\ workers[w].kind = "agent" /\ workers[w].pc = "extract"
    /\ IF raised
       THEN /\ events' = Append(events, ErrorOutcome("response_ready"))
            /\ counters' = [counters EXCEPT !.fails = @ + 1]
            /\ UNCHANGED <<state, extracted, replied>>
       ELSE LET x == ExtractCalls(batch, counters.uuid, counters.uid)
            IN /\ state' = [state EXCEPT
                       !.pending_tool_calls = x.calls,
                       !.is_waiting_for_permission = AnyRequiresPermission(x.calls),
                       !.current_response = text]
               /\ counters' = [counters EXCEPT !.uuid = x.uuid, !.uid = x.uid,
                                               !.rounds = CountRound(batch)]
               /\ extracted' = Append(extracted, x.calls)
               /\ replied' = Append(replied, batch)
               /\ events' = Append(events,
                       Signal("response_ready", text, DictsOf(x.calls)))
    /\ workers' = [workers EXCEPT ![w] = NoWorker]
    /\ UNCHANGED <<is_loading, ctl_pending, db, surfaced, chat, unit, dispatched,
                   turn>>

\* execute_tool_calls up to its loop: the denied ids are recorded and the
\* loop takes the pending list it will iterate.
ExecuteToolCallsStart(w) ==
    /\ workers[w].kind = "tool" /\ workers[w].pc = "exec"
    /\ state' = [state EXCEPT !.denied_tool_calls = @ \cup workers[w].denied]
    /\ workers' = [workers EXCEPT ![w].pc = "loop",
                                  ![w].iter = state.pending_tool_calls,
                                  ![w].i = 1,
                                  ![w].tool_results = <<>>]
    /\ UNCHANGED <<is_loading, ctl_pending, db, events, surfaced, chat, unit,
                   dispatched, extracted, replied, turn, counters>>

\* A faulty variant: whatever is not denied runs.
DispatchWithoutApproval(tc, approved, denied) ==
    IF tc.call_id \in denied THEN "denied" ELSE "run"

\* A faulty variant: approval is tested before denial.
DispatchApprovedFirst(tc, approved, denied) ==
    IF tc.call_id \in approved \/ ~tc.requires_permission THEN "run"
    ELSE IF tc.call_id \in denied THEN "denied"
    ELSE "skip"

\* The branch execute_tool_calls takes for one pending call.
Dispatch(tc, approved, denied) ==
    IF tc.call_id \in denied THEN "denied"
    ELSE IF tc.call_id \in approved \/ ~tc.requires_permission THEN "run"
    ELSE "skip"

\* A faulty variant: a failure Result ends the loop.
NextIndexUntilFailure(i, iter, result) ==
    IF result.success THEN i + 1 ELSE Len(iter) + 1

\* for tool_call in state.pending_tool_calls: the loop goes on to the next
\* call whatever the Result of this one.
NextIndex(i, iter, result) == i + 1

\* A history record of one dispatch: what was run or denied, by a worker
\* started for a permission response or not, and under which id sets.
DispatchRecord(tc, how, result, me, chain) ==
    [uid |-> tc.uid, call_id |-> tc.call_id, tool_name |-> tc.tool_name,
     arguments |-> tc.arguments, requires_permission |-> tc.requires_permission,
     how |-> how, result |-> result,
     by_response |-> me.from_caller,
     in_approved |-> tc.call_id \in me.approved,
     in_denied |-> tc.call_id \in me.denied,
     chain |-> chain]

\* One iteration of the loop of execute_tool_calls.
ExecuteToolCallsLoop(w) ==
    /\ workers[w].kind = "tool" /\ workers[w].pc = "loop"
    /\ workers[w].i <= Len(workers[w].iter)
    /\ LET me == workers[w]
           tc == me.iter[me.i]
           how == Dispatch(tc, me.approved, me.denied)
           result == IF how = "denied" THEN DeniedResult
                     ELSE ExecuteTool(tc.tool_name, tc.arguments)
       IN IF how = "skip"
          THEN /\ workers' = [workers EXCEPT ![w].i = @ + 1]
               /\ UNCHANGED <<state, dispatched, counters>>
          ELSE /\ state' = [state EXCEPT
                       !.completed_tool_calls =
                           IF how = "run" THEN (tc.call_id :> result) @@ @ ELSE @,
                       !.tool_execution_context = Append(@, ContextEntry(tc, result))]
               /\ workers' = [workers EXCEPT
                       ![w].i = NextIndex(me.i, me.iter, result),
                       ![w].tool_results = Append(@, ToolResultEntry(tc, result))]
               /\ dispatched' = Append(dispatched,
                       DispatchRecord(tc, how, result, me, counters.chain))
               /\ counters' = [counters EXCEPT !.disp = @ + 1]
    /\ UNCHANGED <<is_loading, ctl_pending, db, events, surfaced, chat, unit,
                   extracted, replied, turn>>

\* execute_tool_calls after its loop, and _continue_with_tool_results up to
\* the tool-model invoke.
ExecuteToolCallsDone(w) ==
    /\ workers[w].kind = "tool" /\ workers[w].pc = "loop"
    /\ workers[w].i > Len(workers[w].iter)
    /\ state' = [state EXCEPT !.pending_tool_calls = <<>>,
                              !.is_waiting_for_permission = FALSE]
    /\ IF workers[w].tool_results # <<>>
       THEN /\ workers' = [workers EXCEPT
                    ![w].pc = "continue",
                    ![w].messages = ContinueMessages(state.messages,
                                        state.current_response,
                                        workers[w].tool_results)]
            /\ UNCHANGED events
       ELSE /\ events' = Append(events,
                    Signal("execution_complete", state.current_response, <<>>))
            /\ workers' = [workers EXCEPT ![w] = NoWorker]
    /\ UNCHANGED <<is_loading, ctl_pending, db, surfaced, chat, unit, dispatched,
                   extracted, replied, turn, counters>>

\* A faulty variant: the engine runs one round on its own and then stops.
AutoContinueOnce(auto_approve_calls, waiting) ==
    auto_approve_calls # <<>> /\ ~waiting /\ counters.rounds < 1

\* if auto_approve_calls and not state.is_waiting_for_permission
AutoContinue(auto_approve_calls, waiting) ==
    auto_approve_calls # <<>> /\ ~waiting

\* _continue_with_tool_results from the tool-model reply on: more calls are
\* extracted and either run at once (none needs permission), returned as
\* pending, or the chain ends and the results go to the summarizer.
ContinueWithToolResults(w, raised, text, batch) ==
    /\ workers[w].kind = "tool" /\ workers[w].pc = "continue"
    /\ IF raised
       THEN \* except branch: summarize what there is, or report the error
            /\ IF state.tool_execution_context # <<>>
               THEN /\ workers' = [workers EXCEPT ![w].pc = "summarize",
                                                  ![w].failed = TRUE]
                    /\ UNCHANGED events
               ELSE /\ events' = Append(events,
                            ErrorOutcome("execution_complete"))
                    /\ workers' = [workers EXCEPT ![w] = NoWorker]
            /\ counters' = [counters EXCEPT !.fails = @ + 1]
            /\ UNCHANGED <<state, extracted, replied>>
       ELSE LET x == ExtractCalls(batch, counters.uuid, counters.uid)
                waiting == AnyRequiresPermission(x.calls)
                auto_approve_calls == AutoApprove(x.calls)
            IN /\ counters' = [counters EXCEPT !.uuid = x.uuid, !.uid = x.uid,
                                               !.rounds = CountRound(batch)]
               /\ extracted' = Append(extracted, x.calls)
               /\ replied' = Append(replied, batch)
               /\ IF x.calls # <<>>
                  THEN /\ state' = [state EXCEPT
                               !.messages = workers[w].messages,
                               !.pending_tool_calls = x.calls,
                               !.is_waiting_for_permission = waiting,
                               !.current_response = text]
                       /\ IF AutoContinue(auto_approve_calls, waiting)
                          THEN /\ workers' = [workers EXCEPT
                                       ![w].pc = "exec",
                                       ![w].approved = CallIds(auto_approve_calls),
                                       ![w].denied = {},
                                       ![w].from_caller = FALSE]
                               /\ UNCHANGED events
                          ELSE /\ events' = Append(events,
                                       Signal("execution_complete", text,
                                              DictsOf(x.calls)))
                               /\ workers' = [workers EXCEPT ![w] = NoWorker]
                  ELSE /\ state' = [state EXCEPT
                               !.messages = workers[w].messages,
                               !.pending_tool_calls = x.calls,
                               !.is_waiting_for_permission = waiting,
                               !.current_response = text,
                               !.in_tool_chain = FALSE]
                       /\ IF state.tool_execution_context # <<>>
                          THEN /\ workers' = [workers EXCEPT ![w].pc = "summarize",
                                                             ![w].failed = FALSE]
                               /\ UNCHANGED events
                          ELSE /\ events' = Append(events,
                                       Signal("execution_complete", text, <<>>))
                               /\ workers' = [workers EXCEPT ![w] = NoWorker]
    /\ UNCHANGED <<is_loading, ctl_pending, db, surfaced, chat, unit, dispatched,
                   turn>>

\* What the chat model's invoke does for the summarizer: it returns a text
\* or raises.
SummarizerReplies ==
    {[raises |-> FALSE, content |-> "summary"], [raises |-> TRUE, content |-> ""]}

\* A faulty variant: a failure of the backend leaves an empty summary.
SummarizeToolResultsSilent(reply) == reply.content

\* _summarize_tool_results: the model's text, or on an exception the text
\* f"Tools executed but summarization failed: {str(e)}".
SummarizeToolResults(reply) ==
    IF reply.raises THEN "Tools executed but summarization failed"
    ELSE reply.content

\* _summarize_tool_results and the return of _continue_with_tool_results:
\* the context is cleared; on the normal path the summary also becomes the
\* current response.
Summarize(w, reply) ==
    LET summary == SummarizeToolResults(reply)
    IN /\ workers[w].kind = "tool" /\ workers[w].pc = "summarize"
       /\ state' = [state EXCEPT
               !.current_response = IF workers[w].failed THEN @ ELSE summary,
               !.tool_execution_context = <<>>]
       /\ events' = Append(events, Signal("execution_complete", summary, <<>>))
       /\ workers' = [workers EXCEPT ![w] = NoWorker]
       /\ counters' = [counters EXCEPT
               !.sums = @ + 1,
               !.sumfails = IF reply.raises THEN @ + 1 ELSE @]
    /\ UNCHANGED <<is_loading, ctl_pending, db, surfaced, chat, unit, dispatched,
                   extracted, replied, turn>>

\* AgentWorker.run and ToolExecutionWorker.run, except branch: an exception
\* leaves the try body as the service operation is entered, and the thread
\* emits response_error (execution_error) with its text and ends.
RunRaises(w) ==
    /\ workers[w].pc \in {"route", "exec"}
    /\ events' = Append(events,
           Signal(IF workers[w].kind = "agent" THEN "response_error"
                  ELSE "execution_error", "raised", <<>>))
    /\ workers' = [workers EXCEPT ![w] = NoWorker]
    /\ UNCHANGED <<is_loading, ctl_pending, db, state, surfaced, chat, unit,
                   dispatched, extracted, replied, turn, counters>>

\* ChatController._on_response_error, connected to both error signals: the
\* error is stored as an assistant message; _on_agent_worker_finished and
\* _on_tool_worker_finished only dispose of the thread object.
OnResponseError ==
    /\ events # <<>>
    /\ Head(events).sig \in {"response_error", "execution_error"}
    /\ events' = Tail(events)
    /\ db' = Append(db, DbMessage("assistant", "Error: raised"))
    /\ UNCHANGED <<is_loading, ctl_pending, state, workers, surfaced, chat,
                   unit, dispatched, extracted, replied, turn, counters>>

\* ------------------------------------------------- direct calls of functions
\* The inputs of the function under test are drawn at the start; the
\* registry is the one ToolRegistry() constructs.
InitUnit ==
    /\ is_loading = FALSE
    /\ ctl_pending = <<>>
    /\ db = <<>>
    /\ state = NewAgentState
    /\ workers = [w \in 1..MaxWorkers |-> NoWorker]
    /\ events = <<>>
    /\ surfaced = <<>>
    /\ chat = NoChatState
    /\ dispatched = <<>>
    /\ extracted = <<>>
    /\ replied = <<>>
    /\ turn = "idle"
    /\ counters = [uuid |-> 1, uid |-> 1, ops |-> 0, rounds |-> 0, chain |-> 0,
                   disp |-> 0, sums |-> 0, fails |-> 0, sumfails |-> 0,
                   shown |-> {},
                   abandoned |-> {}, empty |-> FALSE]
    /\ registry = DefaultRegistry
    /\ registered = DefaultTools
    /\ mode = AgentModeOn
    /\ probe \in {[input |-> i, n |-> 0, at |-> 0, out |-> NoOut(i)] : i \in Inputs}

\* The call under test returns out; n counts the calls, at tells how many
\* tools had been registered when the call was made.
Called(out) ==
    /\ probe.n < MaxProbes
    /\ probe' = [probe EXCEPT !.n = @ + 1, !.at = Len(registered), !.out = out]

\* self._route_message(user_message, history)
RouteMessageCall ==
    /\ probe.input.kind = "route"
    /\ Called(RouteMessage(probe.input.bound, probe.input.reply))
    /\ UNCHANGED <<main, registry, registered, mode>>

\* tool.requires_explicit_permission
RequiresExplicitPermissionCall ==
    /\ probe.input.kind = "permission"
    /\ Called(RequiresExplicitPermission(probe.input.permissions))
    /\ UNCHANGED <<main, registry, registered, mode>>

\* tool_registry.execute_tool(name, arguments)
ExecuteToolCallDirect ==
    /\ probe.input.kind = "execute"
    /\ Called(ExecuteToolCall(probe.input.name, probe.input.arguments))
    /\ UNCHANGED <<main, registry, registered, mode>>

\* The tool objects a caller may register: a further tool, or one under the
\* name of a default tool.
NewTools ==
    {Tool(name, permissions, Len(registered) + 1) :
        name \in {"read_dir", "echo"}, permissions \in {<<>>, <<"INTERNET">>}}

\* tool_registry.register(tool)
RegisterCall(tool) ==
    /\ Len(registered) < Len(DefaultTools) + MaxRegisters
    /\ registry' = Register(registry, tool)
    /\ registered' = Append(registered, tool)
    /\ UNCHANGED <<main, probe, mode>>

\* tool_registry.get(name)
GetCall ==
    /\ probe.input.kind = "get"
    /\ Called(Get(registry, probe.input.name))
    /\ UNCHANGED <<main, registry, registered, mode>>

\* tool_registry.get_all()
GetAllCall ==
    /\ probe.input.kind = "get_all"
    /\ Called(GetAll(registry))
    /\ UNCHANGED <<main, registry, registered, mode>>

\* check_required_models(ollama_models)
CheckRequiredModelsCall ==
    /\ probe.input.kind = "models"
    /\ Called(CheckRequiredModels(probe.input.models))
    /\ UNCHANGED <<main, registry, registered, mode>>

\* RunCommandTool().execute(command, timeout=timeout)
RunCommandExecuteCall ==
    /\ probe.input.kind = "run_cmd"
    /\ Called(RunCommandExecute(probe.input.runtime, probe.input.code,
                                probe.input.timeout, probe.input.forks))
    /\ UNCHANGED <<main, registry, registered, mode>>

\* ------------------------------------------------------------ agent mode
\* The controller right after construction: __init__ ends with a refresh.
InitMode ==
    /\ is_loading = FALSE
    /\ ctl_pending = <<>>
    /\ db = <<>>
    /\ state = NewAgentState
    /\ workers = [w \in 1..MaxWorkers |-> NoWorker]
    /\ events = <<>>
    /\ surfaced = <<>>
    /\ chat = NoChatState
    /\ dispatched = <<>>
    /\ extracted = <<>>
    /\ replied = <<>>
    /\ turn = "idle"
    /\ counters = [uuid |-> 1, uid |-> 1, ops |-> 0, rounds |-> 0, chain |-> 0,
                   disp |-> 0, sums |-> 0, fails |-> 0, sumfails |-> 0,
                   shown |-> {},
                   abandoned |-> {}, empty |-> FALSE]
    /\ registry = DefaultRegistry
    /\ registered = DefaultTools
    /\ probe = NoProbe
    /\ mode \in {Refreshed(NoModels, is_available, names) :
                    is_available \in BOOLEAN,
                    names \in SeqsUpTo(ModelNames, MaxModels)}

\* ChatController.refreshModels
RefreshModels(is_available, names) ==
    /\ mode' = Refreshed(mode, is_available, names)
    /\ UNCHANGED <<main, registry, registered, probe>>

\* ChatController.setAgentMode(enabled)
SetAgentMode(enabled) ==
    /\ IF enabled /\ ~mode.agent_models_available
       THEN UNCHANGED mode
       ELSE mode' = [mode EXCEPT !.agent_mode = enabled]
    /\ UNCHANGED <<main, registry, registered, probe>>

\* The setter of the agentMode property.
AgentModeSetter(value) ==
    /\ mode' = [mode EXCEPT !.agent_mode = value]
    /\ UNCHANGED <<main, registry, registered, probe>>

NextMode ==
    \/ \E is_available \in BOOLEAN, names \in SeqsUpTo(ModelNames, MaxModels) :
          RefreshModels(is_available, names)
    \/ \E enabled \in BOOLEAN : SetAgentMode(enabled)
    \/ \E value \in BOOLEAN : AgentModeSetter(value)

SpecMode == InitMode /\ [][NextMode]_vars

NextUnit ==
    \/ RouteMessageCall
    \/ RequiresExplicitPermissionCall
    \/ ExecuteToolCallDirect
    \/ \E tool \in NewTools : RegisterCall(tool)
    \/ GetCall
    \/ GetAllCall
    \/ CheckRequiredModelsCall
    \/ RunCommandExecuteCall

SpecUnit == InitUnit /\ [][NextUnit]_vars

ChatReplies == {"answer", "Error"}
SummaryReplies == {SummarizeToolResults(r) : r \in SummarizerReplies}

\* The ids a permission response may name.
ResponseIds == CallIds(ctl_pending)

\* ------------------------------------------------------------ next states
WorkerRounds(replies, rounds) ==
    \E w \in 1..MaxWorkers :
        \/ \E reply \in RouterReplies : ProcessMessageRoute(w, reply)
        \/ \E reply \in ChatReplies : ChatResponse(w, reply)
        \/ \E raised \in BOOLEAN, r \in Offered(replies, rounds) :
              ProcessToolMessage(w, raised, r.text, r.batch)
        \/ ExecuteToolCallsStart(w)
        \/ ExecuteToolCallsLoop(w)
        \/ ExecuteToolCallsDone(w)
        \/ \E raised \in BOOLEAN, r \in Offered(replies, rounds) :
              ContinueWithToolResults(w, raised, r.text, r.batch)
        \/ \E reply \in SummarizerReplies : Summarize(w, reply)

WorkerStep(replies) == WorkerRounds(replies, MaxToolRounds)

MainThreadStep ==
    \/ OnAgentResponseReady
    \/ OnToolExecutionComplete

CallerSend ==
    \E content \in {"", "msg"}, available \in BOOLEAN :
        SendMessage(content, available)

CallerRespond ==
    \E approved \in SUBSET ResponseIds, denied \in SUBSET ResponseIds :
        RespondToToolCalls(approved, denied)

\* No worker thread is running and no signal waits for the main thread.
Quiescent == FreeSlots = 1..MaxWorkers /\ events = <<>>

\* The replies of the concurrent environment: at most one structured call.
SingleCallReplies == {r \in Replies : r.text = "" /\ Len(r.batch) <= 1}

Next ==
    \/ CallerSend
    \/ CallerRespond
    \/ WorkerStep(SingleCallReplies)
    \/ MainThreadStep

Spec == Init /\ [][Next]_vars

NextSeq ==
    \/ Quiescent /\ CallerSend
    \/ Quiescent /\ CallerRespond
    \/ WorkerStep(Replies)
    \/ MainThreadStep

SpecSeq == Init /\ [][NextSeq]_vars

\* The sequential caller with a backend that names unknown tools and sends
\* calls without ids.
NextOpen ==
    \/ Quiescent /\ CallerSend
    \/ Quiescent /\ CallerRespond
    \/ WorkerStep(OpenReplies)
    \/ MainThreadStep

SpecOpen == Init /\ [][NextOpen]_vars

\* The caller that may call at any moment, with a backend that reuses one
\* call id.
NextReuse ==
    \/ CallerSend
    \/ CallerRespond
    \/ WorkerStep(ReusedIdReplies)
    \/ MainThreadStep

SpecReuse == Init /\ [][NextReuse]_vars

\* The sequential caller with a backend that replies with at most one
\* structured call and with up to MaxTurnRounds replies that carry one.
NextTurns ==
    \/ Quiescent /\ CallerSend
    \/ Quiescent /\ CallerRespond
    \/ WorkerRounds(SingleCallReplies, MaxTurnRounds)
    \/ MainThreadStep

SpecTurns == Init /\ [][NextTurns]_vars

\* The sequential caller with worker threads whose run may raise. A started
\* thread is scheduled until it ends and the event loop of the main thread
\* delivers every queued signal: weak fairness on both; the caller is free
\* to stay silent.
WorkerThreadStep ==
    \/ WorkerStep(SingleCallReplies)
    \/ \E w \in 1..MaxWorkers : RunRaises(w)

EventLoopStep ==
    \/ MainThreadStep
    \/ OnResponseError

NextLive ==
    \/ Quiescent /\ CallerSend
    \/ Quiescent /\ CallerRespond
    \/ WorkerThreadStep
    \/ EventLoopStep

SpecLive ==
    Init /\ [][NextLive]_vars /\ WF_vars(WorkerThreadStep) /\ WF_vars(EventLoopStep)

\* The sequential caller of a chat that may be deleted at any moment; a
\* deleted chat gets no further message and no further permission response.
NextDelete ==
    \/ Quiescent /\ ~chat.deleted /\ CallerSend
    \/ Quiescent /\ ~chat.deleted /\ CallerRespond
    \/ DeleteChat
    \/ WorkerStep(SingleCallReplies)
    \/ MainThreadStep

SpecDelete == Init /\ [][NextDelete]_vars

\* ------------------------------------------------------------- properties
\* The batch an invocation was extracted in.
BatchOf(uid) ==
    CHOOSE b \in Range(extracted) : \E k \in DOMAIN b : b[k].uid = uid

HasRun(uid) ==
    \E k \in DOMAIN dispatched :
        dispatched[k].uid = uid /\ dispatched[k].how = "run"

RunningWorkers == {w \in 1..MaxWorkers : Running(w)}

Iterated(w) ==
    IF workers[w].kind = "tool" /\ workers[w].pc \in {"loop", "continue", "summarize"}
    THEN {j \in DOMAIN workers[w].iter : j < workers[w].i}
    ELSE {}

\* C2: a pending invocation that requires permission and whose call id is in
\* the denied set of the permission response gets the Result success = false
\* with the error "User denied permission for this tool call.", and the
\* registry is not called for it.
C2_DeniedNotRun ==
    /\ \A k \in DOMAIN dispatched :
           (dispatched[k].requires_permission /\ dispatched[k].in_denied)
               => /\ dispatched[k].how = "denied"
                  /\ dispatched[k].result.success = FALSE
                  /\ dispatched[k].result.error =
                         "User denied permission for this tool call."
                  /\ ~HasRun(dispatched[k].uid)
    /\ \A w \in 1..MaxWorkers : \A j \in Iterated(w) :
           LET tc == workers[w].iter[j]
           IN (tc.requires_permission /\ tc.call_id \in workers[w].denied)
                  => \E k \in DOMAIN dispatched :
                         /\ dispatched[k].uid = tc.uid
                         /\ dispatched[k].how = "denied"

\* The caller denied a pending invocation that requires permission and the
\* loop of execute_tool_calls has passed it.
C2_Witness ==
    \E k \in DOMAIN dispatched :
        /\ dispatched[k].requires_permission
        /\ dispatched[k].in_denied
        /\ dispatched[k].by_response

Last(q) == q[Len(q)]

IsDispatched(uid) == \E k \in DOMAIN dispatched : dispatched[k].uid = uid

Mixed(b) ==
    /\ \E k \in DOMAIN b : b[k].requires_permission
    /\ \E k \in DOMAIN b : ~b[k].requires_permission

NoneNeedsPermission(b) ==
    b # <<>> /\ \A k \in DOMAIN b : ~b[k].requires_permission

\* C3 as stated: when a batch with both kinds of invocation suspends the
\* turn, the invocations that need no approval have already been executed
\* and only the invocations that need approval are stored as pending.
C3_PartitionedBeforeSuspend ==
    (turn = "awaiting" /\ extracted # <<>>) =>
        /\ \A k \in DOMAIN Last(extracted) :
               ~Last(extracted)[k].requires_permission
                   => HasRun(Last(extracted)[k].uid)
        /\ \A k \in DOMAIN ctl_pending : ctl_pending[k].requires_permission

\* C3 amended: when a batch suspends the turn, none of its invocations has
\* been dispatched, the whole batch is stored as pending and exactly the
\* invocations that need approval are surfaced, in order; the invocations
\* that need no approval are executed when the worker started for the
\* permission response passes them, unless the response denies their id.
C3_HeldWholeBatch ==
    /\ (turn = "awaiting" /\ extracted # <<>>) =>
           LET b == Last(extracted)
               needs == {k \in DOMAIN b : b[k].requires_permission}
           IN /\ Len(ctl_pending) = Len(b)
              /\ \A k \in DOMAIN b :
                     /\ ctl_pending[k].uid = b[k].uid
                     /\ ~IsDispatched(b[k].uid)
              /\ Len(surfaced) = Cardinality(needs)
              /\ \A k \in DOMAIN surfaced :
                     /\ surfaced[k].requires_permission
                     /\ \E j \in needs : surfaced[k].uid = b[j].uid
              /\ \A k, j \in DOMAIN surfaced :
                     k < j => surfaced[k].uid < surfaced[j].uid
    /\ \A w \in 1..MaxWorkers : \A j \in Iterated(w) :
           LET tc == workers[w].iter[j]
           IN (~tc.requires_permission /\ tc.call_id \notin workers[w].denied)
                  => HasRun(tc.uid)

\* The worker started for a permission response has passed an invocation
\* that needs no approval and was held in a batch with one that needs it.
C3_Witness ==
    \E w \in 1..MaxWorkers : \E j \in Iterated(w) :
        /\ workers[w].from_caller
        /\ Mixed(workers[w].iter)
        /\ ~workers[w].iter[j].requires_permission
        /\ HasRun(workers[w].iter[j].uid)

\* C4: a batch none of whose invocations requires permission is executed
\* without suspending: until all of it has run the conversation is loading,
\* the turn neither suspends nor ends, a worker or a queued signal carries it
\* on without the caller, and it is run by a worker of the engine's own
\* auto-approval, not by one started for a permission response.
C4_AutoBatchRunsThrough ==
    /\ \A n \in DOMAIN extracted :
           (/\ NoneNeedsPermission(extracted[n])
            /\ \E k \in DOMAIN extracted[n] : ~HasRun(extracted[n][k].uid))
               => /\ is_loading
                  /\ turn = "inflight"
                  /\ ~Quiescent
    /\ \A k \in DOMAIN dispatched :
           NoneNeedsPermission(BatchOf(dispatched[k].uid))
               => /\ dispatched[k].how = "run"
                  /\ ~dispatched[k].by_response

\* Two batches without a permission-requiring invocation, a first round and
\* a continuation round, have run in full and the turn has reached its text.
C4_Witness ==
    /\ turn = "final"
    /\ \E n, m \in DOMAIN extracted :
           /\ n < m
           /\ NoneNeedsPermission(extracted[n])
           /\ NoneNeedsPermission(extracted[m])
           /\ Len(extracted[m]) = MaxBatch
           /\ \A k \in DOMAIN extracted[m] : HasRun(extracted[m][k].uid)

\* C5: at no time do two workers hold the conversation's AgentState.
C5_OneWorkerPerState == Cardinality(RunningWorkers) <= 1

\* The turn of an accepted submit has not yet returned: its AgentWorker runs.
SubmitInFlight ==
    \E w \in 1..MaxWorkers : workers[w].kind = "agent"

\* C6: a sendMessage that arrives while the turn of an accepted submit is in
\* flight starts no worker, appends nothing to the transcript log and leaves
\* the AgentState alone.
C6_SubmitRejectedInFlight ==
    [][(SubmitInFlight /\ CallerSend) => UNCHANGED <<workers, db, state>>]_vars

\* C7: when a turn surfaces invocations for permission the conversation is
\* not loading, no worker runs and no signal is queued, and none of the held
\* invocations has been dispatched; an invocation of a batch that was held
\* for permission is only ever dispatched by a worker started for a
\* permission response.
C7_SuspendedUntilResponse ==
    /\ turn = "awaiting" =>
           /\ ~is_loading
           /\ Quiescent
           /\ surfaced # <<>>
           /\ \A k \in DOMAIN ctl_pending : ~IsDispatched(ctl_pending[k].uid)
    /\ \A k \in DOMAIN dispatched :
           (\E j \in DOMAIN BatchOf(dispatched[k].uid) :
                BatchOf(dispatched[k].uid)[j].requires_permission)
               => dispatched[k].by_response

\* A turn is suspended on a batch surfaced by a continuation round, after an
\* earlier held batch was dispatched by the worker of a permission response.
C7_Witness ==
    /\ turn = "awaiting"
    /\ ctl_pending # <<>>
    /\ \E k \in DOMAIN dispatched :
           dispatched[k].requires_permission /\ dispatched[k].by_response

\* The position of an invocation in a list of invocations (0 when absent).
PosIn(calls, uid) ==
    IF \E k \in DOMAIN calls : calls[k].uid = uid
    THEN CHOOSE k \in DOMAIN calls : calls[k].uid = uid
    ELSE 0

\* The last n entries of a sequence.
LastN(q, n) == SubSeq(q, Len(q) - n + 1, Len(q))

\* C8: the invocations of a batch are dispatched in the order the model
\* declared them, and the transcript built after the batch ends with one
\* assistant message listing the dispatched calls followed by exactly one
\* tool message per dispatched call, in the same order, each with the call id
\* of the call it answers; when the continuation reply is processed that
\* transcript is the conversation's.
C8_OrderedDispatchAndTranscript ==
    \A w \in 1..MaxWorkers :
        (workers[w].kind = "tool" /\ workers[w].pc \in {"continue", "summarize"}) =>
            LET me == workers[w]
                n == Len(me.tool_results)
                D == LastN(dispatched, n)
                tail == LastN(me.messages, n + 1)
            IN /\ n >= 1
               /\ Len(dispatched) >= n
               /\ Len(me.messages) >= n + 1
               /\ me.iter \in Range(extracted)
               /\ \A j \in 1..n : PosIn(me.iter, D[j].uid) > 0
               /\ \A j, k \in 1..n :
                      j < k => PosIn(me.iter, D[j].uid) < PosIn(me.iter, D[k].uid)
               /\ tail[1].role = "ai"
               /\ Len(tail[1].calls) = n
               /\ \A j \in 1..n :
                      /\ tail[1].calls[j].id = D[j].call_id
                      /\ tail[1].calls[j].name = D[j].tool_name
                      /\ tail[j + 1].role = "tool"
                      /\ tail[j + 1].call_id = D[j].call_id
                      /\ tail[j + 1].content = ToolResultContent(D[j].result)
               /\ \A j \in 1..(Len(me.messages) - n - 1) :
                      me.messages[j].role = "tool"
                          => \E k \in 1..(Len(dispatched) - n) :
                                 dispatched[k].call_id = me.messages[j].call_id
               /\ (me.pc = "summarize" /\ ~me.failed) => state.messages = me.messages

\* A batch of two calls, one run and one denied, has been dispatched and its
\* transcript built.
C8_Witness ==
    \E w \in 1..MaxWorkers :
        /\ workers[w].kind = "tool" /\ workers[w].pc = "continue"
        /\ Len(workers[w].tool_results) = 2
        /\ workers[w].tool_results[1].result # workers[w].tool_results[2].result
        /\ workers[w].tool_results[2].result = DeniedResult

\* The tool messages of a transcript, as <<call id, content>> pairs.
ToolMessagesOf(messages) ==
    LET t == SelectSeq(messages, LAMBDA m : m.role = "tool")
    IN [k \in DOMAIN t |-> <<t[k].call_id, t[k].content>>]

\* The Results dispatched in the current chain, as <<call id, content>> pairs.
ChainResults ==
    LET d == SelectSeq(dispatched, LAMBDA r : r.chain = counters.chain)
    IN [k \in DOMAIN d |-> <<d[k].call_id, ToolResultContent(d[k].result)>>]

\* C9: when a continuation round is about to call the tool model, the loop of
\* the round before has passed every invocation of its batch, and the
\* transcript handed to the model holds the tool messages of every Result
\* dispatched in the chain so far, earlier rounds first.
C9_RoundsOrdered ==
    \A w \in 1..MaxWorkers :
        (workers[w].kind = "tool" /\ workers[w].pc = "continue") =>
            /\ workers[w].i = Len(workers[w].iter) + 1
            /\ ToolMessagesOf(workers[w].messages) = ChainResults

\* A second continuation round is about to start with the Results of two
\* rounds in its transcript.
C9_Witness ==
    \E w \in 1..MaxWorkers :
        /\ workers[w].kind = "tool" /\ workers[w].pc = "continue"
        /\ Len(ToolMessagesOf(workers[w].messages)) > Len(workers[w].tool_results)

\* C10: whenever a turn ends with final text, the tool-execution context of
\* the AgentState is empty.
C10_ContextEmptyAtEnd ==
    turn = "final" => state.tool_execution_context = <<>>

\* C11: in every turn in which at least one invocation was executed or
\* denied, the summarizer is invoked exactly once between the submit and the
\* final text of the turn.
C11_SummarizedOnce ==
    /\ counters.sums <= 1
    /\ (turn = "final" /\ counters.disp > 0) => counters.sums = 1

\* C12: _route_message returns ACTION exactly when the router binding
\* exists, the router call does not raise, and the case-normalized response
\* text contains "TOOLS" anywhere; in every other case it returns NO_ACTION.
C12_RouteIffToolsInReply ==
    (probe.input.kind = "route" /\ probe.n > 0) =>
        LET content == probe.input.reply.content
        IN probe.out =
              (/\ probe.input.bound
               /\ ~probe.input.reply.raises
               /\ \E i \in DOMAIN content :
                      /\ i + Len(TOOLS) - 1 <= Len(content)
                      /\ \A j \in DOMAIN TOOLS :
                             UpperChar(content[i + j - 1]) = TOOLS[j])

\* ACTION was returned for a reply that holds the word in lower case inside
\* a sentence.
C12_Witness ==
    /\ probe.input.kind = "route" /\ probe.n > 0
    /\ probe.out
    /\ probe.input.reply.content \notin {TOOLS}
    /\ Len(probe.input.reply.content) > Len(TOOLS) + 2
    /\ probe.input.reply.content[1] = "n"

\* C13: when the router returns NO_ACTION, process_message answers with the
\* chat model and leaves messages, pending, completed, denied, context,
\* in_tool_chain and is_waiting_for_permission as they were; only
\* current_response changes, to the answer, and the outcome carries no
\* pending invocation.
C13_ChatChangesOnlyResponse ==
    [][\A w \in 1..MaxWorkers :
          /\ (workers[w].pc = "route" /\ workers'[w].pc = "chat")
                 => state' = state
          /\ (workers[w].pc = "chat" /\ workers'[w].pc = "none")
                 => /\ [state' EXCEPT !.current_response = ""]
                        = [state EXCEPT !.current_response = ""]
                    /\ events' # <<>>
                    /\ Last(events').sig = "response_ready"
                    /\ Last(events').response = state'.current_response
                    /\ Last(events').response \in ChatReplies
                    /\ Last(events').tool_calls = <<>>]_vars

\* A chat answer was returned while the state still held invocations of an
\* earlier turn.
C13_Witness ==
    /\ events # <<>>
    /\ Head(events).sig = "response_ready"
    /\ Head(events).response = "answer"
    /\ Head(events).tool_calls = <<>>
    /\ state.current_response = "answer"
    /\ state.pending_tool_calls # <<>>
    /\ state.is_waiting_for_permission

\* The names and arguments of a sequence of calls, in order.
NamesArgs(calls) ==
    [k \in DOMAIN calls |-> <<calls[k].tool_name, calls[k].arguments>>]

\* The structured calls of a reply that name a registered tool.
Registered(batch) ==
    LET known == SelectSeq(batch, LAMBDA c : c.name \in Range(RegisteredTools))
    IN [k \in DOMAIN known |-> <<known[k].name, known[k].args>>]

Unregistered(name) == name \notin Range(RegisteredTools)

\* C14: a structured call naming a tool the registry does not have never
\* becomes an invocation, in the first round and in continuation rounds, and
\* never produces a result, a transcript message or a context entry, while
\* the other calls of the same response still become invocations.
C14_UnknownToolSkipped ==
    /\ Len(extracted) = Len(replied)
    /\ \A k \in DOMAIN replied :
           NamesArgs(extracted[k]) = Registered(replied[k])
    /\ \A k \in DOMAIN state.pending_tool_calls :
           ~Unregistered(state.pending_tool_calls[k].tool_name)
    /\ \A k \in DOMAIN ctl_pending : ~Unregistered(ctl_pending[k].tool_name)
    /\ \A k \in DOMAIN dispatched : ~Unregistered(dispatched[k].tool_name)
    /\ BackendId(3) \notin DOMAIN state.completed_tool_calls
    /\ \A k \in DOMAIN state.tool_execution_context :
           ~Unregistered(state.tool_execution_context[k].tool_name)
    /\ \A k \in DOMAIN state.messages :
           /\ state.messages[k].call_id # BackendId(3)
           /\ \A j \in DOMAIN state.messages[k].calls :
                  ~Unregistered(state.messages[k].calls[j].name)

\* In one chain, a first reply and a continuation reply each named the
\* unknown tool beside a registered one, and both registered ones ran.
C14_Witness ==
    /\ counters.chain = 1
    /\ Len(replied) = 2
    /\ \A k \in 1..2 :
           /\ Len(replied[k]) = 2
           /\ \E j \in 1..2 : replied[k][j].name = "bogus"
           /\ Len(extracted[k]) = 1
           /\ HasRun(extracted[k][1].uid)

\* The structured calls of a reply that became invocations, in order.
KnownCalls(batch) == SelectSeq(batch, LAMBDA c : c.name \in Range(RegisteredTools))

\* Every minted call id, in the order the invocations were extracted.
MintedIds ==
    {<<k, j>> \in (DOMAIN extracted) \X (1..MaxBatch) :
        j \in DOMAIN extracted[k] /\ KnownCalls(replied[k])[j].id = NoId}

\* C15: every invocation carries the backend's call id if the backend gave
\* one and a freshly minted id otherwise, and the call ids of the invocations
\* pending in a conversation are pairwise distinct, whatever ids the backend
\* supplies or omits.
C15_CallIdsDistinct ==
    /\ \A k \in DOMAIN extracted : \A j \in DOMAIN extracted[k] :
           LET given == KnownCalls(replied[k])[j].id
           IN IF given # NoId THEN extracted[k][j].call_id = given
              ELSE /\ extracted[k][j].call_id[1] = "uuid"
                   /\ \A m \in MintedIds :
                          m # <<k, j>> =>
                              extracted[m[1]][m[2]].call_id
                                  # extracted[k][j].call_id
    /\ \A i, j \in DOMAIN state.pending_tool_calls :
           i # j => state.pending_tool_calls[i].call_id
                        # state.pending_tool_calls[j].call_id

NeedApproval == {"FS_WRITE", "INTERNET", "RUN_CMD"}

\* C16: requires_permission of a tool, and of every invocation created from
\* it, is the OR over the tool's permission tags of the tag's
\* requires_explicit_permission (true for FS_WRITE, INTERNET and RUN_CMD,
\* false for FS_READ): false for an empty or all-false tag list; read_dir and
\* read_file invocations never require permission, write_file and run_cmd
\* invocations always do.
C16_RequiresPermissionIsAnyTag ==
    /\ (probe.input.kind = "permission" /\ probe.n > 0) =>
           probe.out = (Range(probe.input.permissions) \cap NeedApproval # {})
    /\ \A k \in DOMAIN registered :
           RequiresExplicitPermission(registered[k].permissions)
               = (Range(registered[k].permissions) \cap NeedApproval # {})
    /\ \A name \in Range(RegisteredTools), arguments \in Arguments :
           LET tc == CreateToolCall(name, arguments, NoId, 0)
           IN /\ tc.requires_permission = (name \in {"write_file", "run_cmd"})
              /\ tc.requires_permission
                     = (Range(tc.permissions) \cap NeedApproval # {})

\* The property was computed for a tag list with one tag that needs approval
\* and one that does not.
C16_Witness ==
    /\ probe.input.kind = "permission" /\ probe.n > 0
    /\ probe.input.permissions = <<"FS_READ", "RUN_CMD">>
    /\ probe.out

\* The positions of the register calls made with this name.
RegisteredAs(name) == {k \in DOMAIN registered : registered[k].name = name}

Max(S) == CHOOSE x \in S : \A y \in S : y <= x
Min(S) == CHOOSE x \in S : \A y \in S : x <= y

\* The tool most recently registered under a name, or None.
LatestRegistered(name) ==
    IF RegisteredAs(name) = {} THEN None
    ELSE registered[Max(RegisteredAs(name))]

\* C17: after any sequence of register calls the registry holds at most one
\* tool per name, and get(name) returns the tool most recently registered
\* under that name, or the not-found value if none was.
C17_LastRegistrationWins ==
    /\ \A i, j \in DOMAIN registry.keys :
           registry.keys[i] = registry.keys[j] => i = j
    /\ DOMAIN registry.val = Range(registry.keys)
    /\ \A i, j \in DOMAIN GetAll(registry) :
           GetAll(registry)[i].name = GetAll(registry)[j].name => i = j
    /\ \A name \in ToolNames \cup {"echo"} :
           Get(registry, name) = LatestRegistered(name)
    /\ (probe.input.kind = "get" /\ probe.n > 0) =>
           IF \E k \in 1..probe.at : registered[k].name = probe.input.name
           THEN probe.out
                  = registered[Max({k \in 1..probe.at :
                                       registered[k].name = probe.input.name})]
           ELSE probe.out = None

\* get returned a tool registered in place of a default tool of that name.
C17_Witness ==
    /\ probe.input.kind = "get" /\ probe.n > 0
    /\ probe.input.name = "read_dir"
    /\ probe.out.obj > Len(DefaultTools)
    /\ Cardinality(RegisteredAs("read_dir")) > 1

\* C18: get_all returns every registered tool, one per name, in the order
\* the names were first registered, and it does not change the registry;
\* called twice with no register in between it returns the same list.
C18_GetAllInRegistrationOrder ==
    [][(probe.input.kind = "get_all" /\ probe'.n = probe.n + 1) =>
          LET out == probe'.out
          IN /\ registry' = registry
             /\ {out[k].name : k \in DOMAIN out}
                    = {registered[k].name : k \in DOMAIN registered}
             /\ \A k \in DOMAIN out : out[k] = LatestRegistered(out[k].name)
             /\ \A j, k \in DOMAIN out :
                    j < k => Min(RegisteredAs(out[j].name))
                                < Min(RegisteredAs(out[k].name))
             /\ (probe.n > 0 /\ probe.at = Len(registered))
                    => out = probe.out]_vars

\* get_all was called twice after a further tool was registered and a default
\* tool was replaced.
C18_Witness ==
    /\ probe.input.kind = "get_all" /\ probe.n = 2
    /\ Len(probe.out) = Len(DefaultTools) + 1
    /\ probe.out[1].obj > Len(DefaultTools)
    /\ probe.out[Len(probe.out)].name = "echo"

Results ==
    [success : BOOLEAN, output : {"", "out"},
     error : {"None", "Unknown tool", "Invalid arguments for tool", "tool error"}]

\* C19: execute_tool always returns a Result and never propagates an
\* exception: for a name the registry does not have, a failure Result with an
\* "unknown tool" error, no tool being run; for a registered tool whose
\* arguments do not match its parameters, a failure Result with an "invalid
\* arguments" error.
C19_ExecuteToolAlwaysReturns ==
    (probe.input.kind = "execute" /\ probe.n > 0) =>
        /\ probe.out.returned
        /\ probe.out.result \in Results
        /\ Unregistered(probe.input.name) =>
               /\ ~probe.out.result.success
               /\ probe.out.result.error = "Unknown tool"
               /\ ~probe.out.ran
        /\ (~Unregistered(probe.input.name) /\ probe.input.arguments = "bad") =>
               /\ ~probe.out.result.success
               /\ probe.out.result.error = "Invalid arguments for tool"
        /\ (probe.out.result.success \/ probe.out.result.error = "tool error")
               => probe.out.ran

\* execute_tool was called for a registered tool with arguments that do not
\* match, and returned.
C19_Witness ==
    /\ probe.input.kind = "execute" /\ probe.n > 0
    /\ probe.input.name = "write_file"
    /\ probe.input.arguments = "bad"
    /\ probe.out.returned
    /\ ~probe.out.result.success

\* The calls the loop of execute_tool_calls has passed without skipping.
Passed(me) ==
    SelectSeq(SubSeq(me.iter, 1, me.i - 1),
              LAMBDA tc : tc.call_id \in me.denied
                          \/ tc.call_id \in me.approved
                          \/ ~tc.requires_permission)

\* C20: a failing invocation does not end the batch: every invocation the
\* loop has passed that was denied, approved or needs no approval has its own
\* Result, in order, in the results of the batch, in the context and, when the
\* transcript is built, in a tool message of its own, whether the
\* invocations before it succeeded or failed.
C20_FailureDoesNotAbortBatch ==
    \A w \in 1..MaxWorkers :
        (workers[w].kind = "tool" /\ workers[w].pc \in {"loop", "continue"}) =>
            LET me == workers[w]
                passed == Passed(me)
                n == Len(passed)
                context == LastN(state.tool_execution_context, n)
            IN /\ me.pc = "continue" => me.i = Len(me.iter) + 1
               /\ Len(me.tool_results) = n
               /\ Len(state.tool_execution_context) >= n
               /\ \A k \in 1..n :
                      LET result == IF passed[k].call_id \in me.denied
                                    THEN DeniedResult
                                    ELSE ToolExecute(passed[k].tool_name,
                                                     passed[k].arguments).result
                          expected ==
                              IF passed[k].call_id \notin me.denied
                                 /\ passed[k].arguments = "bad"
                              THEN ToolResult(FALSE, "", "Invalid arguments for tool")
                              ELSE result
                      IN /\ me.tool_results[k].call_id = passed[k].call_id
                         /\ me.tool_results[k].tool_name = passed[k].tool_name
                         /\ me.tool_results[k].result = expected
                         /\ context[k].tool_name = passed[k].tool_name
                         /\ context[k].result = expected
                         /\ me.pc = "continue" =>
                                LET m == LastN(me.messages, n)[k]
                                IN /\ m.role = "tool"
                                   /\ m.call_id = passed[k].call_id
                                   /\ m.content = ToolResultContent(expected)

\* The first invocation of a batch failed and the second one was executed
\* and succeeded.
C20_Witness ==
    \E w \in 1..MaxWorkers :
        /\ workers[w].kind = "tool" /\ workers[w].pc = "continue"
        /\ Len(workers[w].tool_results) = 2
        /\ ~workers[w].tool_results[1].result.success
        /\ workers[w].tool_results[1].result # DeniedResult
        /\ workers[w].tool_results[2].result.success

\* The entries of a batch's results that are denials.
Denials(tool_results) ==
    {k \in DOMAIN tool_results : tool_results[k].result = DeniedResult}

DenialText == "Error: User denied permission for this tool call."

\* C21: a denial takes part in the continuation round like any other tool
\* failure: when the loop has ended on a batch with a denied invocation the
\* tool model is invoked again, on a transcript holding a tool message with
\* the denied call's id and the denial error; the round then goes on to
\* further invocations or to the summarizer; the denied invocation was not
\* run in this batch.
C21_DenialSeenByModel ==
    [][\A w \in 1..MaxWorkers :
          LET me == workers[w]
              now == workers'[w]
          IN /\ (me.pc = "loop" /\ now.pc # "loop"
                  /\ Denials(me.tool_results) # {})
                    => /\ now.pc = "continue"
                       /\ \A k \in Denials(me.tool_results) :
                              /\ \E j \in DOMAIN now.messages :
                                     /\ now.messages[j].role = "tool"
                                     /\ now.messages[j].call_id
                                            = me.tool_results[k].call_id
                                     /\ now.messages[j].content = DenialText
                              /\ me.tool_results[k].call_id \in me.denied
                              /\ LastN(dispatched, Len(me.tool_results))[k].how
                                     = "denied"
                              /\ LastN(state.tool_execution_context,
                                       Len(me.tool_results))[k].result
                                     = DeniedResult
             /\ (me.pc = "continue" /\ now.pc # "continue"
                  /\ Denials(me.tool_results) # {})
                    => \/ now.pc \in {"exec", "summarize"}
                       \/ /\ now.pc = "none"
                          /\ Last(events').tool_calls # <<>>]_vars

\* After a denial the tool model answered without further calls, and the
\* transcript with the denial message went to the summarizer.
C21_Witness ==
    \E w \in 1..MaxWorkers :
        /\ workers[w].kind = "tool" /\ workers[w].pc = "summarize"
        /\ workers[w].from_caller
        /\ ~workers[w].failed
        /\ Denials(workers[w].tool_results) # {}
        /\ \E j \in DOMAIN state.messages :
               state.messages[j].content = DenialText

\* A worker step in which the tool model's invoke raised.
ExtractionFailed(w) ==
    /\ workers[w].pc \in {"extract", "continue"}
    /\ workers'[w].pc # workers[w].pc
    /\ counters'.fails = counters.fails + 1

TranscriptHolds(messages, tool_results) ==
    /\ \E j \in DOMAIN messages :
           /\ messages[j].role = "ai"
           /\ messages[j].calls = ToolCallsForMessage(tool_results)
    /\ \A k \in DOMAIN tool_results :
           \E j \in DOMAIN messages :
               /\ messages[j].role = "tool"
               /\ messages[j].call_id = tool_results[k].call_id

\* C23: once the continuation round of a batch has been answered or has
\* failed, the transcript of the conversation state holds the batch's
\* assistant message and its tool-result messages.
C23_TranscriptKeepsBatch ==
    \A w \in 1..MaxWorkers :
        (workers[w].kind = "tool" /\ workers[w].pc = "summarize")
            => TranscriptHolds(state.messages, workers[w].tool_results)

SummarizationFailed == "Tools executed but summarization failed"

\* C24: when the summarizer's backend call fails after tools ran, the
\* summarizer returns the text saying that tools were executed but
\* summarization failed; the worker hands that text over as the outcome with
\* no invocations, the chain context is cleared all the same, and the main
\* thread stores the text as the final answer of the turn.
C24_SummarizerFailureIsTold ==
    [][/\ \A w \in 1..MaxWorkers :
            (workers[w].pc = "summarize" /\ workers'[w].pc = "none"
             /\ counters'.sumfails = counters.sumfails + 1)
              => /\ state.tool_execution_context # <<>>
                 /\ Last(events')
                       = Signal("execution_complete", SummarizationFailed, <<>>)
                 /\ state'.tool_execution_context = <<>>
       /\ (events # <<>> /\ events' = Tail(events)
           /\ counters.sumfails > 0 /\ turn = "inflight")
             => /\ Last(db') = DbMessage("assistant", SummarizationFailed)
                /\ turn' = "final"
                /\ ~is_loading']_vars

\* Tools ran, the summarizer failed, and the failure text is the answer.
C24_Witness ==
    /\ turn = "final"
    /\ counters.sumfails > 0
    /\ counters.disp > 0
    /\ state.tool_execution_context = <<>>
    /\ Last(db) = DbMessage("assistant", SummarizationFailed)

NotAvailable(required, models) ==
    SelectSeq(required, LAMBDA r : \A k \in DOMAIN models : models[k] # r)

C27_TimeoutTerminatesProcess ==
    (probe.input.kind = "run_cmd" /\ probe.n > 0
     /\ probe.input.runtime > probe.input.timeout)
        => /\ probe.out.result = ToolResult(FALSE, "", "Command timed out")
           /\ probe.out.alive = {}

\* C28: in every state after deleteChat the controller holds no AgentState
\* and no pending invocations for the chat, also when a worker of the chat
\* was running at the time of the deletion and completes afterwards.
C28_DeletedChatHoldsNothing ==
    chat.deleted => (~chat.has_state /\ ctl_pending = <<>>)

\* C29: a worker started for a permission response iterates the whole
\* pending list. For a pending invocation whose id is denied, the id is in
\* the denied set of the state, the chain context gets an entry with the
\* synthetic failure Result, and the completed-results map is left as it
\* was. For one whose id is approved (and not denied), the registry is
\* called, and its Result is stored in the completed-results map under the
\* call id and appended to the chain context.
C29_ResponseRecorded ==
    [][\A w \in 1..MaxWorkers :
          LET me == workers[w]
              now == workers'[w]
              tc == me.iter[me.i]
              context == state.tool_execution_context
          IN /\ (me.pc = "exec" /\ now.pc = "loop" /\ me.from_caller)
                    => /\ now.iter = state.pending_tool_calls
                       /\ now.i = 1
                       /\ me.denied \subseteq state'.denied_tool_calls
             /\ (me.pc = "loop" /\ now.pc # "loop" /\ me.from_caller)
                    => me.i = Len(me.iter) + 1
             /\ (me.pc = "loop" /\ now.pc = "loop" /\ me.from_caller
                  /\ tc.call_id \in me.denied)
                    => /\ now.i = me.i + 1
                       /\ tc.call_id \in state'.denied_tool_calls
                       /\ state'.tool_execution_context
                            = Append(context,
                                     [tool_name |-> tc.tool_name,
                                      arguments |-> tc.arguments,
                                      result |-> DeniedResult])
                       /\ state'.completed_tool_calls
                            = state.completed_tool_calls
                       /\ Last(dispatched').how = "denied"
             /\ (me.pc = "loop" /\ now.pc = "loop" /\ me.from_caller
                  /\ tc.call_id \in me.approved \ me.denied)
                    => LET result == ExecuteToolCall(tc.tool_name,
                                                     tc.arguments).result
                       IN /\ now.i = me.i + 1
                          /\ Len(dispatched') = Len(dispatched) + 1
                          /\ Last(dispatched').how = "run"
                          /\ Last(dispatched').uid = tc.uid
                          /\ tc.call_id \in DOMAIN state'.completed_tool_calls
                          /\ state'.completed_tool_calls[tc.call_id] = result
                          /\ state'.tool_execution_context
                               = Append(context,
                                        [tool_name |-> tc.tool_name,
                                         arguments |-> tc.arguments,
                                         result |-> result])]_vars

\* A permission response that denied one pending invocation and approved
\* another has been processed to the end of the pending list.
C29_Witness ==
    \E w \in 1..MaxWorkers :
        /\ workers[w].kind = "tool" /\ workers[w].pc = "continue"
        /\ workers[w].from_caller
        /\ \E k, j \in DOMAIN workers[w].tool_results :
               LET d == workers[w].tool_results[k]
                   a == workers[w].tool_results[j]
               IN /\ d.call_id \in workers[w].denied
                  /\ d.result = DeniedResult
                  /\ d.call_id \notin DOMAIN state.completed_tool_calls
                  /\ a.call_id \in workers[w].approved \ workers[w].denied
                  /\ a.call_id \in DOMAIN state.completed_tool_calls
                  /\ state.completed_tool_calls[a.call_id] = a.result

\* The dispatches made for one invocation.
ResultsOf(uid) == {k \in DOMAIN dispatched : dispatched[k].uid = uid}

\* C30: when a worker started for a permission response has gone through
\* the pending list, every invocation of the list has exactly one Result,
\* from its run or from its denial, whatever sets the caller passed.
C30_OneResultEach ==
    \A w \in 1..MaxWorkers :
        (/\ workers[w].kind = "tool" /\ workers[w].from_caller
         /\ workers[w].pc = "loop"
         /\ workers[w].i > Len(workers[w].iter))
            => \A j \in DOMAIN workers[w].iter :
                   Cardinality(ResultsOf(workers[w].iter[j].uid)) = 1

\* C31: whenever a turn has ended with a final text and nothing pending,
\* the in_tool_chain flag of the conversation state is false.
C31_IdleOutsideChain ==
    (turn = "final" /\ Quiescent) => ~state.in_tool_chain

\* C32: in every state of the controller, agent mode is on only if the
\* most recent refresh of the models found every required model.
C32_AgentModeNeedsModels ==
    mode.agent_mode => mode.agent_models_available

\* C33: whenever the registry runs an invocation that requires permission
\* because its call id is in the approved set of a permission response, an
\* invocation with that call id, that tool name and those arguments has
\* been surfaced to the caller, and the Result is the registry's for that
\* name and those arguments.
C33_RunsWhatWasSurfaced ==
    [][(/\ Len(dispatched') = Len(dispatched) + 1
        /\ Last(dispatched').requires_permission
        /\ Last(dispatched').how = "run"
        /\ Last(dispatched').by_response
        /\ Last(dispatched').in_approved)
          => LET run == Last(dispatched')
             IN /\ Shown(run) \in counters.shown
                /\ run.result = ExecuteTool(run.tool_name, run.arguments)]_vars

\* C34: denial takes precedence over approval: a pending invocation whose
\* call id is in the denied set of a permission response, and which is also
\* in its approved set or needs no approval, is not executed by the registry
\* and gets the synthetic denial Result.
C34_DenialBeforeApproval ==
    \A k \in DOMAIN dispatched :
        (/\ dispatched[k].by_response
         /\ dispatched[k].in_denied
         /\ dispatched[k].in_approved \/ ~dispatched[k].requires_permission)
            => /\ dispatched[k].how = "denied"
               /\ dispatched[k].result = DeniedResult
               /\ \A j \in DOMAIN dispatched :
                      dispatched[j].uid = dispatched[k].uid
                          => dispatched[j].how # "run"

\* One permission response named a permission-requiring invocation as both
\* approved and denied, and one denied an invocation that needs no approval;
\* both have passed the loop of execute_tool_calls.
C34_Witness ==
    /\ \E k \in DOMAIN dispatched :
           /\ dispatched[k].by_response
           /\ dispatched[k].requires_permission
           /\ dispatched[k].in_denied /\ dispatched[k].in_approved
    /\ \E k \in DOMAIN dispatched :
           /\ dispatched[k].by_response
           /\ ~dispatched[k].requires_permission
           /\ dispatched[k].in_denied

\* A worker thread returns from its service operation in this step.
Returns(w) == workers[w].kind # "none" /\ workers'[w].kind = "none"

\* C35: at the return of every service operation (process_message,
\* execute_tool_calls), on the success and on the error paths,
\* is_waiting_for_permission is true exactly if the pending list of the
\* AgentState holds an invocation that requires permission.
C35_WaitingIffPendingNeedsPermission ==
    [][(\E w \in 1..MaxWorkers : Returns(w))
          => (state'.is_waiting_for_permission
                <=> \E k \in DOMAIN state'.pending_tool_calls :
                        state'.pending_tool_calls[k].requires_permission)]_vars

\* A service operation has returned on its error path while invocations of
\* an earlier extraction are still pending and the state waits for permission,
\* and no worker is running.
C35_Witness ==
    /\ counters.fails > 0
    /\ FreeSlots = 1..MaxWorkers
    /\ state.is_waiting_for_permission
    /\ state.pending_tool_calls # <<>>

\* C36: invocations that were held for permission when a new user message
\* was accepted are abandoned; no later permission response, whatever ids
\* it names as approved, makes the registry run one of them.
C36_AbandonedNeverRun ==
    \A k \in DOMAIN dispatched :
        dispatched[k].uid \in counters.abandoned => dispatched[k].how # "run"

\* C37: a permission response delivered when the conversation has no pending
\* invocation executes no tool and leaves the transcript log and the
\* AgentState as they were: until its turn is over no invocation is
\* dispatched, no message is appended and nothing is surfaced.
C37_EmptyResponseIsNoOp ==
    [][counters.empty
          => /\ dispatched' = dispatched
             /\ db' = db
             /\ state' = state
             /\ surfaced' = surfaced]_vars

\* C38: the context handed to the summarizer holds only entries of
\* invocations executed or denied since the current user message was
\* submitted: it is no longer than the dispatches of this turn, and its
\* entries are those of the latest dispatches.
C38_SummaryOfCurrentTurn ==
    [][(\E w \in 1..MaxWorkers :
            workers[w].pc = "summarize" /\ workers'[w].pc = "none")
          => LET ctx == state.tool_execution_context
             IN /\ Len(ctx) <= counters.disp
                /\ \A k \in DOMAIN ctx :
                       LET d == LastN(dispatched, Len(ctx))[k]
                       IN ctx[k] = [tool_name |-> d.tool_name,
                                    arguments |-> d.arguments,
                                    result |-> d.result]]_vars

\* C39: every accepted submit and every permission response eventually
\* leaves the controller not loading, also when a worker thread reports an
\* error: whenever the controller is loading it is later not loading, so a
\* later submit is accepted again.
C39_LoadingEnds == is_loading ~> ~is_loading

\* C40: each invocation is executed by the registry at most once, whatever
\* the sequence and interleaving of sendMessage and respondToToolCalls
\* calls: no two dispatches that ran a tool are of the same invocation.
C40_RunAtMostOnce ==
    \A j, k \in DOMAIN dispatched :
        (/\ j # k
         /\ dispatched[j].how = "run"
         /\ dispatched[k].how = "run")
            => dispatched[j].uid # dispatched[k].uid
====
